---- MODULE Spec2Model ----
(***************************************************************************)
(* Model of class RSA (src/rsa.hpp): the number-theory helpers, the        *)
(* constructor's key derivation, and the public operations of one          *)
(* instance.  Strings are sequences of byte values (0..255).               *)
(*                                                                         *)
(* The source computes in 64-bit long long.  Every value the model         *)
(* reaches stays far below 2^63 (n < 10^6, products < 10^12), so no        *)
(* 64-bit operation wraps; products that exceed the model checker's        *)
(* integer range are computed piecewise by MulRem, with the same result.   *)
(***************************************************************************)
EXTENDS Integers, Sequences, FiniteSets, TLC

VARIABLES p, q, n, phi, e, d, charSigned, op, arg, out, src, rt

vars == <<p, q, n, phi, e, d, charSigned, op, arg, out, src, rt>>
key == <<p, q, n, phi, e, d>>

---------------------------------------------------------------------------
(* Bounds of the model *)
MaxMsg == 3
DrawCap == 107
MaxStrLen == 2
MaxBits == 7
MaxPairBits == 2
MaxX == 10000
MaxBase == 6
MaxExp == 9
MaxMod == 7
MaxA == 24
MaxM == 24

(* Program constants *)
RangeLo == 100
RangeHi == 1000
PublicExponent == 65537
CharZero == 48
CharOne == 49
CharSpace == 32
CharMinus == 45
CharPlus == 43

---------------------------------------------------------------------------
(* C++ integer arithmetic on long long *)

Abs(x) == IF x < 0 THEN -x ELSE x

\* a / m, truncating toward zero (m > 0)
CDiv(a, m) == IF a >= 0 THEN a \div m ELSE -((-a) \div m)

\* a % m, sign of the dividend (m > 0)
CRem(a, m) == IF a >= 0 THEN a % m ELSE -((-a) % m)

\* (a * b) % m as the 64-bit expression evaluates it, for |a|, |b|, m < 2^20;
\* the product is split so that no intermediate exceeds 2^31.
MulRem(a, b, m) ==
    LET x == Abs(a)
        y == Abs(b)
        r == ((((x \div 1024) * y) % m) * 1024 + (x % 1024) * y) % m
    IN  IF (a < 0) # (b < 0) THEN -r ELSE r

\* x | y on non-negative operands
RECURSIVE BitOr(_, _)
BitOr(x, y) ==
    IF x = 0 THEN y
    ELSE IF y = 0 THEN x
    ELSE 2 * BitOr(x \div 2, y \div 2) + (IF x % 2 = 1 \/ y % 2 = 1 THEN 1 ELSE 0)

---------------------------------------------------------------------------
(* Number theory primitives *)

\* The loop runs while i * i < x, not <=.
RECURSIVE isPrimeLoopLt(_, _)
isPrimeLoopLt(x, i) ==
    IF i * i < x
    THEN IF x % i = 0 \/ x % (i + 2) = 0 THEN FALSE ELSE isPrimeLoopLt(x, i + 6)
    ELSE TRUE

RECURSIVE isPrimeLoop(_, _)
isPrimeLoop(x, i) ==
    IF i * i <= x
    THEN IF x % i = 0 \/ x % (i + 2) = 0 THEN FALSE ELSE isPrimeLoop(x, i + 6)
    ELSE TRUE

isPrime(x) ==
    IF x <= 1 THEN FALSE
    ELSE IF x <= 3 THEN TRUE
    ELSE IF x % 2 = 0 \/ x % 3 = 0 THEN FALSE
    ELSE isPrimeLoop(x, 5)

\* The values generatePrime can return when the distribution is dis(lo, hi):
\* the rejection loop returns the first draw that isPrime accepts.
generatePrime(lo, hi) == {x \in lo..hi : isPrime(x)}

\* One outcome of modInverse: trap = the call ended in a hardware trap,
\* divz = a division by zero was executed, val = the value returned.
Outcome(trap, divz, val) == [trap |-> trap, divz |-> divz, val |-> val]

\* x1 takes the updated x0: the temporary t is not used.
RECURSIVE modInverseLoopNoTemp(_, _, _, _, _)
modInverseLoopNoTemp(a, m, x0, x1, divz) ==
    IF a > 1
    THEN IF m = 0
         THEN {Outcome(TRUE, TRUE, 0)} \cup modInverseLoopNoTemp(0, a, x1, x1, TRUE)
         ELSE LET qq == CDiv(a, m)
              IN  modInverseLoopNoTemp(m, CRem(a, m), x1 - qq * x0, x1 - qq * x0, divz)
    ELSE {Outcome(FALSE, divz, x1)}

\* The while loop of modInverse.  a / 0 and a % 0 are undefined behaviour:
\* the build either traps (x86 idiv) or yields quotient 0 and remainder a
\* (AArch64 sdiv/msub) and goes on.
RECURSIVE modInverseLoop(_, _, _, _, _)
modInverseLoop(a, m, x0, x1, divz) ==
    IF a > 1
    THEN IF m = 0
         THEN {Outcome(TRUE, TRUE, 0)} \cup modInverseLoop(0, a, x1, x0, TRUE)
         ELSE LET qq == CDiv(a, m)
              IN  modInverseLoop(m, CRem(a, m), x1 - qq * x0, x0, divz)
    ELSE {Outcome(FALSE, divz, x1)}

\* The final `if (x1 < 0) x1 += m0` is missing.
modInverseNoNormalise(a, m) ==
    IF m = 1 THEN {Outcome(FALSE, FALSE, 0)}
    ELSE modInverseLoop(a, m, 0, 1, FALSE)

modInverse(a, m) ==
    IF m = 1 THEN {Outcome(FALSE, FALSE, 0)}
    ELSE {IF o.trap THEN o
          ELSE Outcome(FALSE, o.divz, IF o.val < 0 THEN o.val + m ELSE o.val) :
              o \in modInverseLoop(a, m, 0, 1, FALSE)}

RECURSIVE modPowLoop(_, _, _, _)
modPowLoop(result, base, exp, mod) ==
    IF exp > 0
    THEN modPowLoop(IF exp % 2 = 1 THEN MulRem(result, base, mod) ELSE result,
                    MulRem(base, base, mod), exp \div 2, mod)
    ELSE result

modPow(base, exp, mod) == modPowLoop(1, CRem(base, mod), exp, mod)

---------------------------------------------------------------------------
(* Codec layer and character conversions *)

\* static_cast<long long>(c): plain char is signed or unsigned by platform
ToLL(c) == IF charSigned /\ c >= 128 THEN c - 256 ELSE c

\* static_cast<char>(x): the low eight bits
ToChar(x) == x % 256

RECURSIVE binaryToLongLoop(_, _, _)
binaryToLongLoop(binary, i, result) ==
    IF i > Len(binary) THEN result
    ELSE binaryToLongLoop(binary, i + 1, BitOr(2 * result, ToLL(binary[i]) - CharZero))

binaryToLong(binary) == binaryToLongLoop(binary, 1, 0)

\* The mask with 1 is dropped: every position where num >> i is non-zero
\* renders as '1'.
RECURSIVE longToBinaryNoMask(_, _, _)
longToBinaryNoMask(num, i, result) ==
    IF i >= 0
    THEN longToBinaryNoMask(num, i - 1,
             Append(result, IF (num \div (2 ^ i)) # 0 THEN CharOne ELSE CharZero))
    ELSE result

\* The for loop of longToBinary, i = bits-1 .. 0: (num >> i) & 1, where >>
\* is an arithmetic shift
RECURSIVE longToBinaryLoop(_, _, _)
longToBinaryLoop(num, i, result) ==
    IF i >= 0
    THEN longToBinaryLoop(num, i - 1,
             Append(result, IF (num \div (2 ^ i)) % 2 = 1 THEN CharOne ELSE CharZero))
    ELSE result

longToBinary(num, bits) == longToBinaryLoop(num, bits - 1, <<>>)

\* std::to_string(long long)
RECURSIVE Digits(_)
Digits(x) == IF x < 10 THEN <<CharZero + x>> ELSE Digits(x \div 10) \o <<CharZero + (x % 10)>>

to_string(x) == IF x < 0 THEN <<CharMinus>> \o Digits(-x) ELSE Digits(x)

IsDigit(c) == c >= CharZero /\ c <= CharZero + 9

IsSpace(c) == c \in {9, 10, 11, 12, 13, CharSpace}

RECURSIVE stollDigits(_, _, _, _)
stollDigits(tok, i, acc, seen) ==
    IF i <= Len(tok) /\ IsDigit(tok[i])
    THEN stollDigits(tok, i + 1, 10 * acc + (tok[i] - CharZero), TRUE)
    ELSE [ok |-> seen, val |-> acc]

\* std::stoll(token): optional sign, then the longest run of digits;
\* no digit at all throws std::invalid_argument (ok = FALSE).
stoll(tok) ==
    LET signed == Len(tok) >= 1 /\ tok[1] \in {CharMinus, CharPlus}
        r == stollDigits(tok, IF signed THEN 2 ELSE 1, 0, FALSE)
    IN  [ok |-> r.ok,
         val |-> IF signed /\ tok[1] = CharMinus THEN -r.val ELSE r.val]

\* The tokens `while (ss >> token)` reads: maximal runs of non-space bytes
RECURSIVE Tokens(_, _, _, _)
Tokens(s, i, cur, acc) ==
    IF i > Len(s)
    THEN IF cur = <<>> THEN acc ELSE Append(acc, cur)
    ELSE IF IsSpace(s[i])
         THEN Tokens(s, i + 1, <<>>, IF cur = <<>> THEN acc ELSE Append(acc, cur))
         ELSE Tokens(s, i + 1, Append(cur, s[i]), acc)

tokenize(s) == Tokens(s, 1, <<>>, <<>>)

---------------------------------------------------------------------------
(* Cipher facade: what each public method returns for the current key *)

getPublicKey == <<e, n>>

getPrivateKey == <<d, n>>

encrypt(message) == modPow(message, e, n)

decrypt(ciphertext) == modPow(ciphertext, d, n)

RECURSIVE encryptStringLoop(_, _, _)
encryptStringLoop(message, i, result) ==
    IF i > Len(message) THEN result
    ELSE encryptStringLoop(message, i + 1,
             result \o to_string(encrypt(ToLL(message[i]))) \o <<CharSpace>>)

encryptString(message) == encryptStringLoop(message, 1, <<>>)

\* ok = FALSE: std::stoll threw and the exception left decryptString
RECURSIVE decryptStringLoop(_, _, _)
decryptStringLoop(toks, i, result) ==
    IF i > Len(toks) THEN [ok |-> TRUE, str |-> result]
    ELSE LET num == stoll(toks[i])
         IN  IF ~num.ok THEN [ok |-> FALSE, str |-> <<>>]
             ELSE decryptStringLoop(toks, i + 1,
                      Append(result, ToChar(decrypt(num.val))))

decryptString(encrypted) == decryptStringLoop(tokenize(encrypted), 1, <<>>)

RECURSIVE encryptHuffmanLoop(_, _, _)
encryptHuffmanLoop(toks, i, result) ==
    IF i > Len(toks) THEN result
    ELSE encryptHuffmanLoop(toks, i + 1,
             result \o longToBinary(encrypt(binaryToLong(toks[i])), Len(toks[i]))
                    \o <<CharSpace>>)

encryptHuffmanCodes(huffmanCodes) == encryptHuffmanLoop(tokenize(huffmanCodes), 1, <<>>)

RECURSIVE decryptHuffmanLoop(_, _, _)
decryptHuffmanLoop(toks, i, result) ==
    IF i > Len(toks) THEN result
    ELSE decryptHuffmanLoop(toks, i + 1,
             result \o longToBinary(decrypt(binaryToLong(toks[i])), Len(toks[i]))
                    \o <<CharSpace>>)

decryptHuffmanCodes(encrypted) == decryptHuffmanLoop(tokenize(encrypted), 1, <<>>)

---------------------------------------------------------------------------
(* Construction *)

\* The constructor with the distribution's upper end at hi.  A trap inside
\* modInverse ends the process and leaves no instance.
RSA(hi) ==
    \E pp \in generatePrime(RangeLo, hi), qq \in generatePrime(RangeLo, hi) :
        \E o \in modInverse(PublicExponent, (pp - 1) * (qq - 1)) :
            /\ ~o.trap
            /\ p = pp
            /\ q = qq
            /\ n = pp * qq
            /\ phi = (pp - 1) * (qq - 1)
            /\ e = PublicExponent
            /\ d = o.val

\* No call in progress and no returned value held by the caller
Fresh == op = "idle" /\ arg = 0 /\ out = 0 /\ src = 0 /\ rt = FALSE

\* Instances whose primes are drawn below DrawCap
Init == RSA(DrawCap) /\ charSigned \in BOOLEAN /\ Fresh

\* Instances over the whole sampling range
InitKeyGen == RSA(RangeHi) /\ charSigned = TRUE /\ Fresh

InitSmall == RSA(DrawCap) /\ charSigned = TRUE /\ Fresh

---------------------------------------------------------------------------
(* Inputs *)

RECURSIVE SeqsUpTo(_, _)
SeqsUpTo(S, k) ==
    IF k = 0 THEN {<<>>}
    ELSE LET shorter == SeqsUpTo(S, k - 1)
         IN  shorter \cup {Append(s, c) : s \in shorter, c \in S}

RECURSIVE BitStrings(_)
BitStrings(w) ==
    IF w = 0 THEN {<<>>}
    ELSE {Append(s, b) : s \in BitStrings(w - 1), b \in {CharZero, CharOne}}

\* "Hello, World!"
Hello == <<72, 101, 108, 108, 111, 44, 32, 87, 111, 114, 108, 100, 33>>

\* 'H', 'e', and a byte above 127
PlainStrings == SeqsUpTo({72, 101, 233}, MaxStrLen) \cup {Hello}

\* "12 7", "x", "-5 3 ", "7x 1"
CipherStrings == {<<49, 50, 32, 55>>, <<120>>, <<45, 53, 32, 51, 32>>, <<55, 120, 32, 49>>}

RECURSIVE Join(_, _, _)
Join(toks, i, trailing) ==
    IF i > Len(toks) THEN <<>>
    ELSE toks[i] \o (IF i < Len(toks) \/ trailing THEN <<CharSpace>> ELSE <<>>)
                 \o Join(toks, i + 1, trailing)

\* "010 1101 00"
Example == <<<<48, 49, 48>>, <<49, 49, 48, 49>>, <<48, 48>>>>

TokenLists ==
    {<<t>> : t \in UNION {BitStrings(w) : w \in 1..MaxBits}}
    \cup {<<a, b>> : a, b \in UNION {BitStrings(w) : w \in 1..MaxPairBits}}
    \cup {Example, <<>>, <<<<50>>>>, <<<<49, 50>>, <<57, 48>>>>}

\* Codes with each token followed by one space, codes separated by single
\* spaces only, and " 01\t\n1"
HuffmanInputs ==
    {Join(l, 1, TRUE) : l \in TokenLists}
    \cup {Join(l, 1, FALSE) : l \in TokenLists}
    \cup {<<CharSpace, 48, 49, 9, 10, 49>>}

---------------------------------------------------------------------------
(* Public operations of one instance *)

\* A call made by a caller that holds no result (from = "idle") or that
\* passes on the result of the call named from; it leaves the fields alone.
Call(from, name, a, r, s, isRt) ==
    /\ op = from
    /\ op' = name
    /\ arg' = a
    /\ out' = r
    /\ src' = s
    /\ rt' = isRt
    /\ UNCHANGED <<key, charSigned>>

GetPublicKey == Call("idle", "getPublicKey", 0, getPublicKey, 0, FALSE)

GetPrivateKey == Call("idle", "getPrivateKey", 0, getPrivateKey, 0, FALSE)

Encrypt(m) == Call("idle", "encrypt", m, encrypt(m), m, FALSE)

\* decrypt stores its result in d
DecryptStoring(from, c, s, isRt) ==
    /\ op = from
    /\ op' = "decrypt"
    /\ arg' = c
    /\ out' = decrypt(c)
    /\ src' = s
    /\ rt' = isRt
    /\ d' = decrypt(c)
    /\ UNCHANGED <<p, q, n, phi, e, charSigned>>

Decrypt(from, c, s, isRt) == Call(from, "decrypt", c, decrypt(c), s, isRt)

\* decrypt applied to what the preceding encrypt returned
DecryptOfEncrypt == Decrypt("encrypt", out, arg, TRUE)

EncryptString(s) == Call("idle", "encryptString", s, encryptString(s), s, FALSE)

DecryptString(from, c, s, isRt) ==
    Call(from, "decryptString", c, decryptString(c), s, isRt)

DecryptStringOfEncryptString == DecryptString("encryptString", out, arg, TRUE)

EncryptHuffmanCodes(s) == Call("idle", "encryptHuffmanCodes", s, encryptHuffmanCodes(s), s, FALSE)

DecryptHuffmanCodes(from, c, s, isRt) ==
    Call(from, "decryptHuffmanCodes", c, decryptHuffmanCodes(c), s, isRt)

DecryptHuffmanOfEncryptHuffman ==
    DecryptHuffmanCodes("encryptHuffmanCodes", out, arg, TRUE)

\* The caller drops the value it holds; the instance is ready for any call.
Return ==
    /\ op # "idle"
    /\ op' = "idle"
    /\ arg' = 0
    /\ out' = 0
    /\ src' = 0
    /\ rt' = FALSE
    /\ UNCHANGED <<key, charSigned>>

Next ==
    \/ GetPublicKey
    \/ GetPrivateKey
    \/ op = "idle" /\ \E m \in 0..MaxMsg : Encrypt(m)
    \/ op = "idle" /\ \E c \in 0..MaxMsg : Decrypt("idle", c, 0, FALSE)
    \/ DecryptOfEncrypt
    \/ op = "idle" /\ \E s \in PlainStrings : EncryptString(s)
    \/ op = "idle" /\ \E c \in CipherStrings : DecryptString("idle", c, <<>>, FALSE)
    \/ DecryptStringOfEncryptString
    \/ op = "idle" /\ \E s \in HuffmanInputs : EncryptHuffmanCodes(s)
    \/ op = "idle" /\ \E c \in HuffmanInputs : DecryptHuffmanCodes("idle", c, <<>>, FALSE)
    \/ DecryptHuffmanOfEncryptHuffman
    \/ Return

Spec == Init /\ [][Next]_vars

NextKeyGen ==
    \/ GetPublicKey
    \/ GetPrivateKey
    \/ op = "idle" /\ \E m \in 0..MaxMsg : Encrypt(m)
    \/ DecryptOfEncrypt
    \/ Return

SpecKeyGen == InitKeyGen /\ [][NextKeyGen]_vars

NextSmall ==
    \/ op = "idle" /\ \E m \in 0..(n - 1) : Encrypt(m)
    \/ DecryptOfEncrypt
    \/ Return

SpecSmall == InitSmall /\ [][NextSmall]_vars

---------------------------------------------------------------------------
(* The private helpers called on their own, on inputs drawn at the start *)

NoInstance ==
    /\ p = 0 /\ q = 0 /\ n = 0 /\ phi = 0 /\ e = 0 /\ d = 0
    /\ charSigned = TRUE
    /\ op = "input" /\ out = 0 /\ src = 0 /\ rt = FALSE

Apply(name, r) ==
    /\ op = "input"
    /\ op' = name
    /\ out' = r
    /\ UNCHANGED <<key, charSigned, arg, src, rt>>

InitIsPrime == NoInstance /\ arg \in 0..MaxX

CallIsPrime == Apply("isPrime", isPrime(arg))

SpecIsPrime == InitIsPrime /\ [][CallIsPrime]_vars

InitModPow == NoInstance /\ arg \in (1..MaxBase) \X (0..MaxExp) \X (1..MaxMod)

CallModPow == Apply("modPow", modPow(arg[1], arg[2], arg[3]))

SpecModPow == InitModPow /\ [][CallModPow]_vars

InitModInverse == NoInstance /\ arg \in (0..MaxA) \X (1..MaxM)

CallModInverse == \E o \in modInverse(arg[1], arg[2]) : Apply("modInverse", o)

SpecModInverse == InitModInverse /\ [][CallModInverse]_vars

---------------------------------------------------------------------------
(* Reference notions used by the properties *)

RECURSIVE Gcd(_, _)
Gcd(a, b) == IF b = 0 THEN a ELSE Gcd(b, a % b)

TrialDivision(x) == x >= 2 /\ \A k \in 2..(x - 1) : x % k # 0

IsBinary(tok) == \A i \in 1..Len(tok) : tok[i] \in {CharZero, CharOne}

\* The number a string of binary digits denotes
RECURSIVE BinaryValue(_)
BinaryValue(tok) ==
    IF tok = <<>> THEN 0
    ELSE 2 * BinaryValue(SubSeq(tok, 1, Len(tok) - 1)) + (tok[Len(tok)] - CharZero)

\* Where the i-th token of toks starts in the string that holds each token
\* followed by one space
RECURSIVE Offset(_, _)
Offset(toks, i) == IF i = 1 THEN 0 ELSE Offset(toks, i - 1) + Len(toks[i - 1]) + 1

---------------------------------------------------------------------------
(* Properties *)

\* C1: with gcd(65537, phi) = 1, decrypt(encrypt(m)) = m for every m in [0, n),
\* for every keypair the constructor can build.
C1_RoundTrip ==
    (op = "decrypt" /\ rt /\ Gcd(PublicExponent, phi) = 1 /\ src \in 0..(n - 1))
        => out = src

\* C2: decryptString(encryptString(s)) = s for every string s whose character
\* codes are all below n.
C2_StringRoundTrip ==
    (op = "decryptString" /\ rt /\ \A i \in 1..Len(src) : ToLL(src[i]) < n)
        => (out.ok /\ out.str = src)

\* C3: decryptHuffmanCodes(encryptHuffmanCodes(codes)) = codes as a string when
\* every token is binary, its value is below n and the encryption of its value
\* is below 2^(token length).  Stated on codes that already carry the one
\* space after every token that both methods write, so that a difference is
\* one of the tokens' digits.
C3_HuffmanRoundTrip ==
    (/\ op = "decryptHuffmanCodes"
     /\ rt
     /\ src = Join(tokenize(src), 1, TRUE)
     /\ \A i \in 1..Len(tokenize(src)) :
            LET tok == tokenize(src)[i]
            IN  /\ IsBinary(tok)
                /\ BinaryValue(tok) < n
                /\ encrypt(BinaryValue(tok)) < 2 ^ Len(tok))
        => out = src

\* C4: encryptHuffmanCodes and decryptHuffmanCodes return one token per input
\* token, in order: the i-th is made of '0'/'1' only, has the length of the
\* i-th input token, denotes the cipher result cut to that many low bits, and
\* is followed by exactly one space (the last one too).
C4_TokenShape ==
    op \in {"encryptHuffmanCodes", "decryptHuffmanCodes"} =>
        LET toks == tokenize(arg)
            k == Len(toks)
            crypt(v) == IF op = "encryptHuffmanCodes" THEN encrypt(v) ELSE decrypt(v)
        IN  /\ Len(out) = IF k = 0 THEN 0 ELSE Offset(toks, k) + Len(toks[k]) + 1
            /\ \A i \in 1..k :
                   LET from == Offset(toks, i)
                       w == Len(toks[i])
                       piece == SubSeq(out, from + 1, from + w)
                   IN  /\ IsBinary(piece)
                       /\ out[from + w + 1] = CharSpace
                       /\ BinaryValue(piece) = crypt(binaryToLong(toks[i])) % (2 ^ w)

\* A call on three tokens where a cipher result needs more bits than its token
C4_Witness ==
    /\ op = "encryptHuffmanCodes"
    /\ tokenize(arg) = Example
    /\ encrypt(13) >= 16
    /\ Len(out) = 12

\* C5: for b > 0, m > 0, e >= 0, modPow(b, e, m) is below m and equals
\* b^e mod m; in particular modPow(b, 0, m) = 1 mod m, also for m = 1.
C5_ModPow ==
    op = "modPow" => (out < arg[3] /\ out = (arg[1] ^ arg[2]) % arg[3])

\* C6 as stated: with e >= phi, d is not an inverse of e modulo phi and some
\* plaintext in [0, n) does not survive decrypt(encrypt(m)).
C6_Original ==
    e >= phi =>
        (/\ MulRem(e, d, phi) # 1
         /\ \E m \in 0..(n - 1) : decrypt(encrypt(m)) # m)

\* C6 amended: with e >= phi (p, q drawn from 101, 103, 107), d is the inverse of e
\* modulo phi, 0 <= d < phi, and for p # q decrypt(encrypt(m)) = m for every
\* m in [0, n).
C6_SmallPhiKeyWorks ==
    e >= phi =>
        (/\ 0 <= d /\ d < phi
         /\ MulRem(e, d, phi) = 1
         /\ (op = "decrypt" /\ rt /\ p # q) => out = src)

C6_Witness ==
    /\ p = 101 /\ q = 103 /\ e >= phi
    /\ op = "decrypt" /\ rt
    /\ src = n - 1 /\ out = src

\* C7: isPrime agrees with trial division on [0, MaxX]; false for x <= 1,
\* true for 2 and 3.
C7_IsPrime ==
    op = "isPrime" =>
        (/\ out = TrialDivision(arg)
         /\ arg <= 1 => out = FALSE
         /\ arg \in {2, 3} => out = TRUE)

C7_Witness == op = "isPrime" /\ arg = 9409 /\ out = FALSE

\* C8: no call changes p, q, n, phi, e or d, and getPublicKey / getPrivateKey
\* return (e, n) / (d, n) of the fields as they were before the call, so
\* repeated calls return the same pairs.
C8_KeyFrozen ==
    [][/\ key' = key
       /\ op' = "getPublicKey" => out' = <<e, n>>
       /\ op' = "getPrivateKey" => out' = <<d, n>>]_vars

C8_Witness == op = "getPrivateKey" /\ out = <<d, n>> /\ p # q /\ d > 1

\* C9: for a >= 0, m >= 1 with gcd(a, m) # 1, modInverse returns normally, a
\* value that is no inverse of a modulo m, and never divides by zero.
C9_NoFault ==
    (op = "modInverse" /\ Gcd(arg[1], arg[2]) # 1) =>
        (/\ ~out.trap
         /\ ~out.divz
         /\ (arg[1] * out.val) % arg[2] # 1)

\* C10: every keypair the constructor leaves has n = p*q, phi = (p-1)(q-1),
\* e = 65537, 0 <= d < phi and e*d = 1 (mod phi).
C10_KeyPair ==
    /\ n = p * q
    /\ phi = (p - 1) * (q - 1)
    /\ e = PublicExponent
    /\ 0 <= d /\ d < phi
    /\ MulRem(e, d, phi) = 1

\* An instance from two equal primes with phi > e, after a call
C10_Witness == p = 997 /\ q = 997 /\ phi > e /\ op = "getPrivateKey" /\ MulRem(e, d, phi) = 1

====
